---- MODULE Spec2Model ----
(***************************************************************************)
(* A model of analyse_obfuscation: the variant generators of               *)
(* TestProcessObfuscation, its execution harness and thread pool, and the  *)
(* batch driver run_tests with the report writer.                          *)
(*                                                                         *)
(* Strings are sequences of code points; Python's 0-based indices are kept *)
(* as values (At, Slice translate them).  A Python value that may be None, *)
(* a string, a set or a raised exception is a record with a "kind" field.  *)
(***************************************************************************)
EXTENDS Integers, Sequences, FiniteSets, TLC

(***************************************************************************)
(* Characters the code names.                                              *)
(***************************************************************************)
SPACE == 32
QUOTE == 34
HYPHEN == 45
SLASH == 47
COLON == 58
EQUALS == 61

\* delimiters_standard = ['/', '-']
delimiters_standard == <<SLASH, HYPHEN>>

\* delimiters_alternative, in the order of the source (with its repetitions)
delimiters_alternative ==
    << 47, 92, 8725, 9290, 8260, 10744, 45, 126, 173, 1418, 1470, 5120, 6150,
       8208, 8208, 8210, 8211, 8212, 8213, 8275, 8722, 8722, 8722, 11799,
       11834, 11835, 12316, 12336, 12448, 65073, 65074, 65112, 65123, 65293 >>

(***************************************************************************)
(* Bounds of the model.                                                    *)
(***************************************************************************)
MaxTokLen == 5
MaxCharTok == 2
MaxScan == 2
MaxCmds == 2
Threads == 2
MaxCases == 2

(***************************************************************************)
(* Python values.                                                          *)
(***************************************************************************)
None == [kind |-> "None"]
Str(s) == [kind |-> "str", val |-> s]
SetOf(S) == [kind |-> "set", val |-> S]
Raise(e) == [kind |-> "raise", exc |-> e]
Ok(v) == [kind |-> "ok", val |-> v]

\* Optional[int]: the empty set is None, {k} is the integer k
NoIndex == {}

(***************************************************************************)
(* Python's sequence operations, on 0-based indices.                       *)
(***************************************************************************)
Min(a, b) == IF a <= b THEN a ELSE b
Max(a, b) == IF a >= b THEN a ELSE b

\* s[i], for 0 <= i < len(s)
At(s, i) == s[i + 1]

\* s[a:b] for a, b >= 0: out-of-range bounds are clamped, never an error
Slice(s, a, b) ==
    LET lo == Min(a, Len(s))
        hi == Min(b, Len(s))
    IN  IF lo >= hi THEN <<>> ELSE SubSeq(s, lo + 1, hi)

\* s[a:]
From(s, a) == Slice(s, a, Len(s))

\* sep.join(parts)
RECURSIVE Join(_, _)
Join(sep, parts) ==
    IF Len(parts) = 0 THEN <<>>
    ELSE IF Len(parts) = 1 THEN parts[1]
    ELSE parts[1] \o sep \o Join(sep, Tail(parts))

\* ' '.join(command): command_flat
Flatten(command) == Join(<<SPACE>>, command)

\* s.startswith(c) for a one-character c
StartsWith(s, c) == Len(s) > 0 /\ s[1] = c

\* any([s.startswith(d) for d in delimiters_standard])
StartsWithStandard(s) ==
    \E k \in 1..Len(delimiters_standard) : StartsWith(s, delimiters_standard[k])

\* re.split("[:=]", s): the pieces between the delimiters, empty ones included
RECURSIVE ReSplit(_, _)
ReSplit(s, cur) ==
    IF Len(s) = 0 THEN <<cur>>
    ELSE IF s[1] \in {COLON, EQUALS} THEN <<cur>> \o ReSplit(Tail(s), <<>>)
    ELSE ReSplit(Tail(s), Append(cur, s[1]))

\* list(filter(None, parts)): the non-empty pieces, in order
RECURSIVE FilterNonEmpty(_)
FilterNonEmpty(parts) ==
    IF Len(parts) = 0 THEN <<>>
    ELSE IF Len(parts[1]) = 0 THEN FilterNonEmpty(Tail(parts))
    ELSE <<parts[1]>> \o FilterNonEmpty(Tail(parts))

(***************************************************************************)
(* select_arg_index(command, arg_index): the loop from position i on.      *)
(* command_part[0] of an empty token raises IndexError.                    *)
(***************************************************************************)
RECURSIVE select_arg_index_from(_, _, _)
select_arg_index_from(command, arg_index, i) ==
    IF i >= Len(command) THEN Ok(1)
    ELSE IF i = 0 \/ (arg_index # NoIndex /\ i \notin arg_index)
         THEN select_arg_index_from(command, arg_index, i + 1)
    ELSE IF Len(At(command, i)) = 0 THEN Raise("IndexError")
    ELSE IF At(At(command, i), 0) \in {SLASH, HYPHEN} THEN Ok(i)
    ELSE select_arg_index_from(command, arg_index, i + 1)

select_arg_index(command, arg_index) == select_arg_index_from(command, arg_index, 0)

\* __get_option_argument__
get_option_argument(command, arg_index) == select_arg_index(command, arg_index)

\* command[:k] + [test_arg] + command[k+1:], flattened
ReplaceToken(command, k, test_arg) ==
    Flatten(Slice(command, 0, k) \o <<test_arg>> \o From(command, k + 1))

(***************************************************************************)
(* check_quote_injection up to the harness call: None, an exception, or    *)
(* the one candidate (new_command).                                        *)
(***************************************************************************)
quote_test_arg(arg) ==
    Slice(arg, 0, 1) \o <<QUOTE>> \o <<At(arg, 1)>> \o <<QUOTE>> \o From(arg, 2)

quote_injection_candidate(command, arg_index) ==
    IF Len(command) < 2 THEN None
    ELSE LET sel == get_option_argument(command, arg_index)
         IN  IF sel.kind = "raise" THEN sel
             ELSE IF Len(At(command, sel.val)) < 2 THEN Raise("IndexError")
             ELSE Ok(ReplaceToken(command, sel.val, quote_test_arg(At(command, sel.val))))

(***************************************************************************)
(* check_shortened_option up to the pool call: an exception, None, or the  *)
(* list new_commands of (i, command) pairs.                                *)
(***************************************************************************)
shortened_size(selected_command_part) ==
    LET split == FilterNonEmpty(ReSplit(selected_command_part, <<>>))
    IN  IF Len(split) > 1 THEN Len(split[1]) ELSE Len(selected_command_part)

shortened_test_arg(selected_command_part, i) ==
    LET split == FilterNonEmpty(ReSplit(selected_command_part, <<>>))
    IN  IF Len(split) > 1
        THEN Slice(selected_command_part, 0, i + 1)
                 \o From(selected_command_part, Len(split[1]))
        ELSE Slice(selected_command_part, 0, i + 1)

shortened_new_commands(command, arg_index) ==
    IF Len(command) < 2 THEN Raise("ValueError")
    ELSE LET sel == get_option_argument(command, arg_index)
         IN  IF sel.kind = "raise" THEN sel
             ELSE LET part == At(command, sel.val)
                      size == shortened_size(part)
                  IN  IF size <= 2 THEN None
                      ELSE Ok([k \in 1..(size - 1) |->
                                <<k - 1,
                                  ReplaceToken(command, sel.val,
                                               shortened_test_arg(part, k - 1))>>])

(***************************************************************************)
(* check_option_char up to the pool call: None, or the list handed to      *)
(* __test_commands__.                                                      *)
(***************************************************************************)
\* the tokens the for loop looks at that start with a standard delimiter
option_char_hits(command, arg_index_start) ==
    {i \in arg_index_start..(Len(command) - 1) : StartsWithStandard(At(command, i))}

\* a variant of option_char_pos that forgets the separating spaces
RECURSIVE option_char_pos_no_spaces(_, _)
option_char_pos_no_spaces(command, i) ==
    IF i = 0 THEN 0
    ELSE option_char_pos_no_spaces(command, i - 1) + Len(At(command, i - 1))

\* sum([len(c)+1 for c in command[:i]])
RECURSIVE option_char_pos(_, _)
option_char_pos(command, i) ==
    IF i = 0 THEN 0
    ELSE option_char_pos(command, i - 1) + Len(At(command, i - 1)) + 1

\* [(ord(char), char.join(command_parts)) for char in delimiters_alternative]
option_char_all(command, pos) ==
    LET flat == Flatten(command)
    IN  [k \in 1..Len(delimiters_alternative) |->
            <<delimiters_alternative[k],
              Slice(flat, 0, pos) \o <<delimiters_alternative[k]>> \o From(flat, pos + 1)>>]

\* [command for command in new_commands if command[1] != self.command_flat]
option_char_filter(new_commands, command_flat) ==
    LET Differs(c) == c[2] # command_flat
    IN  SelectSeq(new_commands, Differs)

option_char_new_commands(command, arg_index_start) ==
    LET hits == option_char_hits(command, arg_index_start)
    IN  IF hits = {} THEN None
        ELSE LET i == CHOOSE h \in hits : \A g \in hits : h <= g
             IN  Ok(option_char_filter(option_char_all(command, option_char_pos(command, i)),
                                       Flatten(command)))

(***************************************************************************)
(* check_special_chars up to the pool call.                                *)
(***************************************************************************)
\* chr(ordinal) raises ValueError outside range(0x110000)
ChrValid(ordinal) == ordinal \in 0..1114111

\* chr(c).lower(), for the code points the model draws: ASCII and Cyrillic
\* capitals, KELVIN SIGN (-> k) and LATIN CAPITAL I WITH DOT ABOVE (-> two
\* code points); every other code point of the model is its own lower case
Lower(c) ==
    IF c \in 65..90 THEN <<c + 32>>
    ELSE IF c \in 1040..1071 THEN <<c + 32>>
    ELSE IF c = 8490 THEN <<107>>
    ELSE IF c = 304 THEN <<105, 775>>
    ELSE <<c>>

\* a variant of special_chars_keep that compares case-sensitively
special_chars_keep_exact(ordinal, original) == ordinal # original

\* the condition of the list comprehension, for a REPLACE
special_chars_keep(ordinal, original) == Lower(ordinal) # Lower(original)

\* command_parts
special_chars_parts(command_flat, char_at_position, operation) ==
    IF operation = "INSERT"
    THEN <<Slice(command_flat, 0, char_at_position + 1), From(command_flat, char_at_position + 1)>>
    ELSE <<Slice(command_flat, 0, char_at_position), From(command_flat, char_at_position + 1)>>

special_chars_new_commands(command, char_at_position, operation, scan_range) ==
    LET flat == Flatten(command)
        parts == special_chars_parts(flat, char_at_position, operation)
        Kept(ordinal) == operation # "REPLACE"
                            \/ special_chars_keep(ordinal, At(flat, char_at_position))
        kept == SelectSeq(scan_range, Kept)
    IN  IF operation \notin {"INSERT", "REPLACE"} THEN Raise("ValueError")
        ELSE IF \E k \in 1..Len(scan_range) : ~ChrValid(scan_range[k]) THEN Raise("ValueError")
        ELSE IF operation = "REPLACE" /\ Len(scan_range) > 0 /\ char_at_position >= Len(flat)
             THEN Raise("IndexError")
        ELSE Ok([k \in 1..Len(kept) |-> <<kept[k], parts[1] \o <<kept[k]>> \o parts[2]>>])

(***************************************************************************)
(* __test_commands__: the set built from the outcomes list and commands.   *)
(***************************************************************************)
test_commands_result(commands, outcomes) ==
    {commands[k] : k \in {j \in 1..Min(Len(commands), Len(outcomes)) : outcomes[j]}}

(***************************************************************************)
(* The outcomes of a category's harness calls, as the environment decides  *)
(* them: none equivalent, all equivalent, or every other one.              *)
(***************************************************************************)
OutcomeFamilies == {"none", "all", "odd"}

outcomes_of(n, fam) == [k \in 1..n |-> fam = "all" \/ (fam = "odd" /\ k % 2 = 1)]

(***************************************************************************)
(* The public checks, whole: the candidates, the harness calls (whose      *)
(* answers are the parameter fam, or result for the single call), and the  *)
(* value returned.  Each yields [ret, submitted, direct]: the value        *)
(* returned or the exception raised, the list given to __test_commands__   *)
(* (None when it is not called) and the commands given straight to         *)
(* __run_command__.                                                        *)
(***************************************************************************)
Call(ret, submitted, direct) == [ret |-> ret, submitted |-> submitted, direct |-> direct]

check_option_char(command, arg_index_start, fam) ==
    LET nc == option_char_new_commands(command, arg_index_start)
    IN  IF nc.kind # "ok" THEN Call(nc, None, <<>>)
        ELSE Call(SetOf(test_commands_result(nc.val, outcomes_of(Len(nc.val), fam))), nc, <<>>)

check_special_chars(command, char_at_position, operation, scan_range, fam) ==
    LET nc == special_chars_new_commands(command, char_at_position, operation, scan_range)
    IN  IF nc.kind # "ok" THEN Call(nc, None, <<>>)
        ELSE Call(SetOf(test_commands_result(nc.val, outcomes_of(Len(nc.val), fam))), nc, <<>>)

check_quote_injection(command, arg_index, result) ==
    LET nc == quote_injection_candidate(command, arg_index)
    IN  IF nc.kind # "ok" THEN Call(nc, None, <<>>)
        ELSE Call(IF result THEN Str(nc.val) ELSE Str(<<>>), None, <<nc.val>>)

check_shortened_option(command, arg_index, fam) ==
    LET nc == shortened_new_commands(command, arg_index)
    IN  IF nc.kind # "ok" THEN Call(nc, None, <<>>)
        ELSE IF Len(nc.val) = 0 THEN Call(None, None, <<>>)
        ELSE Call(SetOf(test_commands_result(nc.val, outcomes_of(Len(nc.val), fam))), nc, <<>>)

NoCall == [op |-> "none", arg_index |-> NoIndex, arg_index_start |-> 0,
           char_at_position |-> 0, operation |-> "none", scan_range |-> <<>>]
NoOut == Call(None, None, <<>>)

(***************************************************************************)
(* State.  g*: one call of a public check on a command.                    *)
(***************************************************************************)
VARIABLES
    gcommand,   \* self.command of the object the check is called on
    gcall,      \* the check called and its arguments ("none" before the call)
    gout        \* what the call did: [ret, submitted, direct]

(***************************************************************************)
(* State.  p*: one call of __test_commands__ on one object.                *)
(***************************************************************************)
VARIABLES
    pbase,      \* the baseline run's subprocess result: [code, stdout, stderr]
    pself,      \* the object's fields: expected_code, expected_output,
                \* exit_code_only, post_command (configured or not)
    pcommands,  \* the commands argument: a list of (identifier, command)
    ptask,      \* per submitted command: its state in the pool and what its
                \* __run_command__ call did
    pworker,    \* per pool thread: the task it runs (0 when idle)
    pdone,      \* the tasks in the order they completed
    ppool,      \* "idle", "open", "returned" or "raised"
    presult     \* what __test_commands__ returned or raised

(***************************************************************************)
(* State.  b*: one call of run_tests on a batch of test cases.             *)
(***************************************************************************)
VARIABLES
    bcases,     \* test_cases
    bidx,       \* the position of the for loop in test_cases (from 1)
    bpc,        \* where run_tests is: "idle", "construct", a key of
                \* test_outcomes being computed, "report", "print", "end",
                \* or "raised" when an exception left run_tests
    btest,      \* test: the TestProcessObfuscation object of this iteration
    boutcomes,  \* test_outcomes, as far as the dict display is evaluated
    bresult,    \* result: display_name -> test_outcomes
    breports,   \* the report files written: file name -> sections
    bruns,      \* per test case: what its baseline run did, how it ended,
                \* and how many variant and post commands were run for it
    brecorded,  \* the test cases whose test_outcomes were put in result
    bprinted    \* the table print_results printed

(***************************************************************************)
(* State.  s*: one call of run_tests, step by step: which subprocesses are *)
(* running at each moment, and the progress bar of the pool call.          *)
(***************************************************************************)
VARIABLES
    scases,     \* test_cases
    sidx,       \* the position of the for loop in test_cases (from 1)
    spc,        \* where run_tests is: "idle", "construct", "baseline", a key
                \* of test_outcomes being computed, "report", "print", "end"
    sphase,     \* inside a check: "call" (not yet at the harness), "pool"
                \* (in __test_commands__) or "direct" (in its own
                \* __run_command__ call); "none" outside
    spool,      \* the pool call: n commands, next the next to hand out
                \* (from 1), done the calls that returned
    sflight,    \* what the threads are doing: a baseline, variant or post
                \* command subprocess running, or an update() of the bar
                \* between its read and its write of self.n; each with its
                \* test case, category and candidate
    sbar,       \* self.tqdm of the test object: None or a bar
    slast       \* the test case and category of the subprocess started last

gvars == <<gcommand, gcall, gout>>
pvars == <<pbase, pself, pcommands, ptask, pworker, pdone, ppool, presult>>
bvars == <<bcases, bidx, bpc, btest, boutcomes, bresult, breports, bruns, brecorded, bprinted>>
svars == <<scases, sidx, spc, sphase, spool, sflight, sbar, slast>>
vars == <<gvars, pvars, svars, bvars, svars>>

NoPool == [n |-> 0, next |-> 1, done |-> 0]

\* no step-by-step run in this behaviour
SchedIdle ==
    /\ scases = <<>>
    /\ sidx = 0
    /\ spc = "idle"
    /\ sphase = "none"
    /\ spool = NoPool
    /\ sflight = {}
    /\ sbar = None
    /\ slast = <<0, "none">>

\* no batch in this behaviour
BatchIdle ==
    /\ bcases = <<>>
    /\ bidx = 0
    /\ bpc = "idle"
    /\ btest = <<>>
    /\ boutcomes = <<>>
    /\ bresult = <<>>
    /\ breports = <<>>
    /\ bruns = <<>>
    /\ brecorded = {}
    /\ bprinted = <<>>

\* no pool call in this behaviour
PoolIdle ==
    /\ pbase = <<>>
    /\ pself = <<>>
    /\ pcommands = <<>>
    /\ ptask = <<>>
    /\ pworker = <<>>
    /\ pdone = <<>>
    /\ ppool = "idle"
    /\ presult = None

\* no call of a public check in this behaviour
GenIdle ==
    /\ gcommand = <<>>
    /\ gcall = NoCall
    /\ gout = NoOut


SeqsUpTo(S, n) == UNION {[1..k -> S] : k \in 0..n}

(***************************************************************************)
(* Commands for the argument checks (quote injection, shortening): the     *)
(* executable alone, or the executable, an optional token before, a token  *)
(* of up to MaxTokLen characters over / a : = and an optional option after.*)
(***************************************************************************)
Exe == <<110, 101, 116>>
ArgAlphabet == {SLASH, 97, COLON, EQUALS}
ArgTokens == SeqsUpTo(ArgAlphabet, MaxTokLen)
FillBefore == {<<>>, <<(<<120>>)>>, <<(<<HYPHEN, 121>>)>>}
FillAfter == {<<>>, <<(<<HYPHEN, 122>>)>>}
ArgCommands ==
    {<<Exe>>} \cup {<<Exe>> \o pre \o <<t>> \o post :
                        pre \in FillBefore, t \in ArgTokens, post \in FillAfter}

\* arg_index: None, or an index of an argument of the command
ArgIndexChoices(command) == {NoIndex} \cup {{k} : k \in 1..Max(1, Len(command) - 1)}

InitArg ==
    /\ gcommand \in ArgCommands
    /\ gcall = NoCall
    /\ gout = NoOut
    /\ PoolIdle
    /\ BatchIdle
    /\ SchedIdle

QuoteInjection ==
    /\ gcall.op = "none"
    /\ \E ai \in ArgIndexChoices(gcommand), result \in BOOLEAN :
        /\ gcall' = [NoCall EXCEPT !.op = "check_quote_injection", !.arg_index = ai]
        /\ gout' = check_quote_injection(gcommand, ai, result)
    /\ UNCHANGED <<gcommand, pvars, bvars, svars>>

ShortenedOption ==
    /\ gcall.op = "none"
    /\ \E ai \in ArgIndexChoices(gcommand), fam \in OutcomeFamilies :
        /\ gcall' = [NoCall EXCEPT !.op = "check_shortened_option", !.arg_index = ai]
        /\ gout' = check_shortened_option(gcommand, ai, fam)
    /\ UNCHANGED <<gcommand, pvars, bvars, svars>>

\* a direct call of the class method select_arg_index(command, arg_index)
SelectArgIndex ==
    /\ gcall.op = "none"
    /\ \E ai \in ArgIndexChoices(gcommand) :
        /\ gcall' = [NoCall EXCEPT !.op = "select_arg_index", !.arg_index = ai]
        /\ gout' = Call(select_arg_index(gcommand, ai), None, <<>>)
    /\ UNCHANGED <<gcommand, pvars, bvars, svars>>

NextArg == QuoteInjection \/ ShortenedOption \/ SelectArgIndex

SpecArg == InitArg /\ [][NextArg]_vars

(***************************************************************************)
(* Commands for the character checks (option char, insertion,              *)
(* substitution): the executable, a token of up to MaxCharTok characters   *)
(* over / - a K and an optional option after it; scan ranges of up to      *)
(* MaxScan code points among A a k, KELVIN SIGN and 0x110000, the first    *)
(* integer that chr() does not take.                                       *)
(***************************************************************************)
CharAlphabet == {SLASH, HYPHEN, 97, 75}
CharTokens == SeqsUpTo(CharAlphabet, MaxCharTok) \ {<<>>}
CharAfter == {<<>>, <<(<<HYPHEN, 75>>)>>}
CharCommands == {<<Exe>> \o <<t>> \o post : t \in CharTokens, post \in CharAfter}
ScanPoints == {65, 97, 107, 8490, 1114112}
ScanRanges == SeqsUpTo(ScanPoints, MaxScan)

InitChar ==
    /\ gcommand \in CharCommands
    /\ gcall = NoCall
    /\ gout = NoOut
    /\ PoolIdle
    /\ BatchIdle
    /\ SchedIdle

OptionChar ==
    /\ gcall.op = "none"
    /\ \E start \in 1..Len(gcommand), fam \in OutcomeFamilies :
        /\ gcall' = [NoCall EXCEPT !.op = "check_option_char", !.arg_index_start = start]
        /\ gout' = check_option_char(gcommand, start, fam)
    /\ UNCHANGED <<gcommand, pvars, bvars, svars>>

InsertChars ==
    /\ gcall.op = "none"
    /\ \E pos \in 0..(Len(Flatten(gcommand)) - 1), sr \in ScanRanges, fam \in OutcomeFamilies :
        /\ gcall' = [NoCall EXCEPT !.op = "check_special_chars", !.operation = "INSERT",
                                   !.char_at_position = pos, !.scan_range = sr]
        /\ gout' = check_special_chars(gcommand, pos, "INSERT", sr, fam)
    /\ UNCHANGED <<gcommand, pvars, bvars, svars>>

ReplaceChars ==
    /\ gcall.op = "none"
    /\ \E pos \in 0..(Len(Flatten(gcommand)) - 1), sr \in ScanRanges, fam \in OutcomeFamilies :
        /\ gcall' = [NoCall EXCEPT !.op = "check_special_chars", !.operation = "REPLACE",
                                   !.char_at_position = pos, !.scan_range = sr]
        /\ gout' = check_special_chars(gcommand, pos, "REPLACE", sr, fam)
    /\ UNCHANGED <<gcommand, pvars, bvars, svars>>

NextChar == OptionChar \/ InsertChars \/ ReplaceChars

SpecChar == InitChar /\ [][NextChar]_vars

(***************************************************************************)
(* Properties of the argument checks.                                      *)
(***************************************************************************)
IsDelim(c) == c \in {COLON, EQUALS}

\* the part of arg before its first ':' or '=', or arg when it has none
FirstSegment(arg) ==
    LET ds == {i \in 1..Len(arg) : IsDelim(arg[i])}
    IN  IF ds = {} THEN arg
        ELSE SubSeq(arg, 1, (CHOOSE d \in ds : \A e \in ds : d <= e) - 1)

\* the argument a call selected, when the selection did not raise
Selected == At(gcommand, select_arg_index(gcommand, gcall.arg_index).val)

ShorteningCalled ==
    /\ gcall.op = "check_shortened_option"
    /\ Len(gcommand) >= 2
    /\ select_arg_index(gcommand, gcall.arg_index).kind = "ok"

\* C6: check_shortened_option on a command of two or more tokens, with N the
\* length of the selected argument's first segment (the part before its first
\* ':' or '=', or all of it): for N <= 2 it returns None and runs nothing;
\* otherwise it submits exactly N-1 candidates, numbered 0..N-2.
C6_ShorteningCountsBySegment ==
    ShorteningCalled =>
        LET N == Len(FirstSegment(Selected))
        IN  IF N <= 2
            THEN gout.ret = None /\ gout.submitted = None /\ gout.direct = <<>>
            ELSE /\ gout.submitted.kind = "ok"
                 /\ Len(gout.submitted.val) = N - 1
                 /\ \A k \in 1..(N - 1) : gout.submitted.val[k][1] = k - 1

QuoteCalled == gcall.op = "check_quote_injection"

\* the selected argument with a double quote after its first and after its
\* second character
QuotedArg(arg) ==
    <<arg[1], QUOTE, arg[2], QUOTE>> \o SubSeq(arg, 3, Len(arg))

\* C7: check_quote_injection returns None exactly for a command of fewer than
\* two tokens; for two or more tokens it never raises, runs exactly one
\* candidate (the command with the selected argument quoted after its first
\* and second character, every other token unchanged), and returns that
\* candidate or the empty string.
C7_QuoteInjectionOneCandidate ==
    QuoteCalled =>
        /\ (gout.ret = None) <=> (Len(gcommand) < 2)
        /\ Len(gcommand) >= 2 =>
            /\ gout.ret.kind = "str"
            /\ Len(gout.direct) = 1
            /\ gout.submitted = None
            /\ LET sel == select_arg_index(gcommand, gcall.arg_index).val
                   cand == Flatten([gcommand EXCEPT ![sel + 1] = QuotedArg(gcommand[sel + 1])])
               IN  /\ gout.direct[1] = cand
                   /\ gout.ret.val \in {cand, <<>>}

\* arg from its first ':' or '=' on (empty when it has none)
Remainder(arg) == SubSeq(arg, Len(FirstSegment(arg)) + 1, Len(arg))

\* the command with the selected argument replaced by test_arg, as one string
WithSelected(test_arg) ==
    LET sel == select_arg_index(gcommand, gcall.arg_index).val
    IN  Flatten([gcommand EXCEPT ![sel + 1] = test_arg])

\* C13: in check_shortened_option, when the selected argument contains ':' or
\* '=', every candidate replaces the selected argument by a proper non-empty
\* prefix of its first segment followed by the rest of the argument from its
\* first delimiter on, verbatim, and leaves every other token unchanged;
\* wherever the delimiters are (leading, trailing, repeated).
C13_ShorteningKeepsRemainder ==
    (ShorteningCalled /\ (\E i \in 1..Len(Selected) : IsDelim(Selected[i]))) =>
        /\ gout.ret.kind # "raise"
        /\ gout.submitted.kind = "ok" =>
              \A k \in 1..Len(gout.submitted.val) :
                 \E n \in 1..(Len(FirstSegment(Selected)) - 1) :
                    gout.submitted.val[k][2] =
                        WithSelected(SubSeq(Selected, 1, n) \o Remainder(Selected))

SelectCalled ==
    /\ gcall.op = "select_arg_index"
    /\ Len(gcommand) >= 2
    /\ \A k \in 1..Len(gcommand) : Len(gcommand[k]) > 0

\* the indices i >= 1 of the tokens of the command that start with '/' or '-'
OptionLike == {i \in 1..(Len(gcommand) - 1) : gcommand[i + 1][1] \in {SLASH, HYPHEN}}

\* C16: select_arg_index on a command of at least two non-empty tokens: with
\* no override it returns the smallest index i >= 1 whose token starts with
\* '/' or '-', and 1 when there is none; with an explicit override k >= 1 it
\* returns k.  The result is never 0 and is always an index of the command.
C16_SelectArgIndex ==
    SelectCalled =>
        /\ gout.ret.kind = "ok"
        /\ gout.ret.val \in 1..(Len(gcommand) - 1)
        /\ gcall.arg_index = NoIndex =>
               IF OptionLike = {} THEN gout.ret.val = 1
               ELSE /\ gout.ret.val \in OptionLike
                    /\ \A i \in OptionLike : gout.ret.val <= i
        /\ gcall.arg_index # NoIndex => gout.ret.val \in gcall.arg_index

(***************************************************************************)
(* Properties of the character checks.                                     *)
(***************************************************************************)
OptionCharCalled == gcall.op = "check_option_char"

\* the indices >= arg_index_start of tokens starting with '/' or '-'
OptionTokens ==
    {i \in gcall.arg_index_start..(Len(gcommand) - 1) :
        Len(gcommand[i + 1]) > 0 /\ gcommand[i + 1][1] \in {SLASH, HYPHEN}}

\* the offset in the flattened command of the first character of token i
TokenOffset(i) == Len(Flatten(SubSeq(gcommand, 1, i))) + 1

\* C8: check_option_char returns None exactly when no token at index >=
\* arg_index_start starts with '/' or '-'; otherwise every submitted candidate
\* is the flattened command with the one character at the offset of the first
\* such token's delimiter replaced by an alternative delimiter (its
\* identifier), and none equals the flattened command.
C8_OptionCharCandidates ==
    OptionCharCalled =>
        /\ (gout.ret = None) <=> (OptionTokens = {})
        /\ OptionTokens # {} =>
            LET first == CHOOSE i \in OptionTokens : \A j \in OptionTokens : i <= j
                off == TokenOffset(first)
                flat == Flatten(gcommand)
            IN  /\ gout.submitted.kind = "ok"
                /\ flat[off + 1] \in {SLASH, HYPHEN}
                /\ \A k \in 1..Len(gout.submitted.val) :
                    LET id == gout.submitted.val[k][1]
                        cmd == gout.submitted.val[k][2]
                    IN  /\ \E a \in 1..Len(delimiters_alternative) : delimiters_alternative[a] = id
                        /\ Len(cmd) = Len(flat)
                        /\ cmd[off + 1] = id
                        /\ \A j \in 1..Len(flat) : j # off + 1 => cmd[j] = flat[j]
                        /\ cmd # flat

\* reached: an option found behind a first argument that is none, its slash
\* or hyphen among the alternatives and left out of the submitted list
C8_Witness ==
    /\ OptionCharCalled
    /\ OptionTokens # {}
    /\ 1 \notin OptionTokens
    /\ gout.submitted.kind = "ok"
    /\ Len(gout.submitted.val) = Len(delimiters_alternative) - 1
    /\ gout.ret.kind = "set"
    /\ gout.ret.val # {}

ReplaceCalled ==
    /\ gcall.op = "check_special_chars"
    /\ gcall.operation = "REPLACE"

\* every code point of the scan range is a character
AllCharacters(sr) == \A k \in 1..Len(sr) : ChrValid(sr[k])

\* how often x occurs in the sequence s
Occurrences(s, x) == Cardinality({k \in 1..Len(s) : s[k] = x})

\* C9: check_special_chars with REPLACE on a scan range of characters
\* submits, for each code point c of
\* scan_range whose character differs case-insensitively from the character at
\* the offset, exactly the candidate (c, flat[:offset] + chr(c) +
\* flat[offset+1:]), once per occurrence of c in scan_range, and nothing for
\* any other c; every candidate has the length of the flattened command and
\* differs from it at index offset and nowhere else.
C9_ReplaceCandidates ==
    (ReplaceCalled /\ AllCharacters(gcall.scan_range)) =>
        LET flat == Flatten(gcommand)
            off == gcall.char_at_position
            orig == flat[off + 1]
            sr == gcall.scan_range
            Expected(c) == <<c, SubSeq(flat, 1, off) \o <<c>> \o SubSeq(flat, off + 2, Len(flat))>>
        IN  /\ gout.submitted.kind = "ok"
            /\ \A c \in ScanPoints :
                Occurrences(gout.submitted.val, Expected(c)) =
                    IF Lower(c) # Lower(orig) THEN Occurrences(sr, c) ELSE 0
            /\ \A k \in 1..Len(gout.submitted.val) :
                LET id == gout.submitted.val[k][1]
                    cmd == gout.submitted.val[k][2]
                IN  /\ \E j \in 1..Len(sr) : sr[j] = id
                    /\ Lower(id) # Lower(orig)
                    /\ cmd = Expected(id)[2]
                    /\ Len(cmd) = Len(flat)
                    /\ cmd[off + 1] # flat[off + 1]
                    /\ \A j \in 1..Len(flat) : j # off + 1 => cmd[j] = flat[j]

\* reached: a scan range with a code point that differs from the original
\* only in case (left out) and one that differs (submitted)
C9_Witness ==
    /\ ReplaceCalled
    /\ gout.submitted.kind = "ok"
    /\ Len(gout.submitted.val) = 1
    /\ Len(gcall.scan_range) = 2
    /\ \E k \in 1..2 :
        /\ gcall.scan_range[k] # Flatten(gcommand)[gcall.char_at_position + 1]
        /\ Lower(gcall.scan_range[k]) = Lower(Flatten(gcommand)[gcall.char_at_position + 1])

InsertCalled ==
    /\ gcall.op = "check_special_chars"
    /\ gcall.operation = "INSERT"

\* C14: check_special_chars with INSERT submits exactly one candidate
\* (c, flat[:offset+1] + chr(c) + flat[offset+1:]) for every code point c of
\* scan_range, none left out; a code point that cannot be made a character is
\* a failed candidate (not in the result), and neither makes the call raise
\* nor loses the outcomes of the other candidates.
C14_InsertCandidates ==
    InsertCalled =>
        LET flat == Flatten(gcommand)
            off == gcall.char_at_position
            sr == gcall.scan_range
            Expected(c) == <<c, SubSeq(flat, 1, off + 1) \o <<c>>
                                    \o SubSeq(flat, off + 2, Len(flat))>>
        IN  /\ gout.ret.kind = "set"
            /\ gout.submitted.kind = "ok"
            /\ \A c \in ScanPoints :
                  ChrValid(c) =>
                      Occurrences(gout.submitted.val, Expected(c)) = Occurrences(sr, c)
            /\ \A pair \in gout.ret.val : ChrValid(pair[1])

(***************************************************************************)
(* The execution harness, __run_command__, and the baseline run.           *)
(*                                                                         *)
(* What subprocess.run does is the environment's choice: it completes with *)
(* an exit code and the two captured streams, or raises.                   *)
(***************************************************************************)
Completed(code, stdout, stderr) ==
    [kind |-> "completed", code |-> code, stdout |-> stdout, stderr |-> stderr]
Raised(e) == [kind |-> e, code |-> 0, stdout |-> <<>>, stderr |-> <<>>]

\* the classes caught by "except Exception"
ExceptionClasses ==
    {"TimeoutExpired", "FileNotFoundError", "PermissionError", "ValueError", "IndexError"}

\* repr of a bytes value without quotes or escapes: b'...'
BytesRepr(b) == <<98, 39>> \o b \o <<39>>

\* "{} / {}".format(result.stdout, result.stderr)
Format(stdout, stderr) == BytesRepr(stdout) \o <<SPACE, SLASH, SPACE>> \o BytesRepr(stderr)

\* a variant of run_command_equivalent that compares the output even when
\* exit_code_only is set
run_command_equivalent_always_output(self, exit_code, stdout) ==
    exit_code = self.expected_code /\ stdout = self.expected_output

\* line 118: the value returned after a completed run
run_command_equivalent(self, exit_code, stdout) ==
    exit_code = self.expected_code /\ (self.exit_code_only \/ stdout = self.expected_output)

\* a variant of variant_except that handles the timeout only
variant_except_timeout_only(e) == e = "TimeoutExpired"

\* lines 119-124: the exceptions the except clauses of the try handle
variant_except(e) == e = "TimeoutExpired" \/ e \in ExceptionClasses

\* a variant of post_except that handles nothing
post_except_nothing(e) == FALSE

\* line 130: the exceptions the post command's except clause handles
post_except(e) == e \in ExceptionClasses

\* lines 111-124: the try statement: the value to return, or the exception
\* that leaves it
run_command_try(self, o) ==
    IF o.kind = "completed"
    THEN [ret |-> run_command_equivalent(self, o.code, Format(o.stdout, o.stderr)),
          raised |-> "none"]
    ELSE IF variant_except(o.kind) THEN [ret |-> FALSE, raised |-> "none"]
    ELSE [ret |-> FALSE, raised |-> o.kind]

\* lines 125-133: the finally clause: the subprocess events it adds and the
\* exception that leaves it
run_command_finally(self, po) ==
    IF self.post_command
    THEN [events |-> <<"post">>,
          raised |-> IF po.kind = "completed" \/ post_except(po.kind) THEN "none" ELSE po.kind]
    ELSE [events |-> <<>>, raised |-> "none"]

\* __run_command__, whole: o is what the variant's subprocess.run does, po
\* what the post command's does.  An exception leaving the finally clause
\* replaces the pending return or exception.
run_command(self, o, po) ==
    LET t == run_command_try(self, o)
        f == run_command_finally(self, po)
    IN  [ret |-> t.ret,
         raised |-> IF f.raised # "none" THEN f.raised ELSE t.raised,
         events |-> <<"variant">> \o f.events]

\* a variant of map_outcomes that lists the outcomes as they complete
map_outcomes_unordered(rets, completion) == [k \in 1..Len(completion) |-> rets[completion[k]]]

\* line 103: list(thread_pool.map(...)): the outcomes in the order of the
\* submitted commands, whatever the order of completion
map_outcomes(rets, completion) == [k \in 1..Len(rets) |-> rets[k]]

(***************************************************************************)
(* __test_commands__ on a list of up to MaxCmds commands and a pool of     *)
(* Threads threads: what each call runs and returns, and what the pool     *)
(* call makes of it.  The subprocesses' starts and ends and the progress   *)
(* bar (lines 101, 134-135) are followed in the step-by-step run further   *)
(* down.                                                                   *)
(***************************************************************************)
ExitCodes == {0, 2}
\* the two captured streams: "x" on stdout, or "x" on stderr
Streams == {<< <<120>>, <<>> >>, << <<>>, <<120>> >>}
ExecOutcomes ==
    {Completed(c, st[1], st[2]) : c \in ExitCodes, st \in Streams}
        \cup {Raised("TimeoutExpired"), Raised("FileNotFoundError")}
PostOutcomes == {Completed(0, <<>>, <<>>), Raised("FileNotFoundError")}

PoolPairs == {<<1, <<97>>>>, <<2, <<98>>>>}

QueuedTask == [st |-> "queued", outcome |-> Raised("none"), post |-> Raised("none"),
               ret |-> FALSE, raised |-> "none", events |-> <<>>]

InitPool ==
    /\ GenIdle
    /\ BatchIdle
    /\ SchedIdle
    /\ pbase \in {Completed(c, <<120>>, <<>>) : c \in ExitCodes}
    /\ \E eco \in BOOLEAN, post \in BOOLEAN :
        pself = [expected_code |-> pbase.code,
                 expected_output |-> Format(pbase.stdout, pbase.stderr),
                 exit_code_only |-> eco,
                 post_command |-> post]
    /\ pcommands \in SeqsUpTo(PoolPairs, MaxCmds)
    /\ ptask = [i \in 1..Len(pcommands) |-> QueuedTask]
    /\ pworker = [w \in 1..Threads |-> 0]
    /\ pdone = <<>>
    /\ ppool = "open"
    /\ presult = None

Queued == {i \in 1..Len(pcommands) : ptask[i].st = "queued"}

\* an idle thread takes the next command of the list
PoolTake(w) ==
    /\ ppool = "open"
    /\ pworker[w] = 0
    /\ Queued # {}
    /\ LET i == CHOOSE q \in Queued : \A r \in Queued : q <= r
       IN  /\ pworker' = [pworker EXCEPT ![w] = i]
           /\ ptask' = [ptask EXCEPT ![i].st = "running"]
    /\ UNCHANGED <<gvars, bvars, svars, pbase, pself, pcommands, pdone, ppool, presult>>

\* a thread's __run_command__ call runs and ends
PoolRun(w) ==
    /\ ppool = "open"
    /\ pworker[w] # 0
    /\ \E o \in ExecOutcomes,
          po \in IF pself.post_command THEN PostOutcomes ELSE {Raised("none")} :
        LET i == pworker[w]
            r == run_command(pself, o, po)
        IN  /\ ptask' = [ptask EXCEPT ![i] =
                            [st |-> "done", outcome |-> o, post |-> po, ret |-> r.ret,
                             raised |-> r.raised, events |-> r.events]]
            /\ pdone' = Append(pdone, i)
    /\ pworker' = [pworker EXCEPT ![w] = 0]
    /\ UNCHANGED <<gvars, bvars, svars, pbase, pself, pcommands, ppool, presult>>

Failed == {i \in 1..Len(pcommands) : ptask[i].st = "done" /\ ptask[i].raised # "none"}

\* map returns when every call has ended, or re-raises a call's exception;
\* the with statement then ends the pool
PoolReturn ==
    /\ ppool = "open"
    /\ \/ \A i \in 1..Len(pcommands) : ptask[i].st = "done"
       \/ Failed # {}
    /\ IF Failed # {}
       THEN /\ ppool' = "raised"
            /\ presult' = Raise(ptask[CHOOSE i \in Failed : TRUE].raised)
       ELSE /\ ppool' = "returned"
            /\ presult' = SetOf(test_commands_result(
                                    pcommands,
                                    map_outcomes([i \in 1..Len(pcommands) |-> ptask[i].ret], pdone)))
    /\ UNCHANGED <<gvars, bvars, svars, pbase, pself, pcommands, ptask, pworker, pdone>>

NextPool ==
    \/ \E w \in 1..Threads : PoolTake(w)
    \/ \E w \in 1..Threads : PoolRun(w)
    \/ PoolReturn

SpecPool == InitPool /\ [][NextPool]_vars

(***************************************************************************)
(* Properties of the harness and the pool.                                 *)
(***************************************************************************)
Tasks == 1..Len(pcommands)
Done(i) == ptask[i].st = "done"

\* the observed streams are the baseline's, byte for byte
SameOutput(o) == o.stdout = pbase.stdout /\ o.stderr = pbase.stderr

\* what a call's own run makes of it: equivalent or not
OwnVerdict(o) ==
    /\ o.kind = "completed"
    /\ o.code = pbase.code
    /\ (pself.exit_code_only \/ SameOutput(o))

\* C1: a variant run that completes (no timeout, no exception) returns true
\* exactly when its exit code is the baseline's and exit_code_only is set or
\* its captured output is the baseline's; the harness has no other input, so
\* the rule is the same for every category.
C1_EquivalenceRule ==
    \A i \in Tasks :
        (Done(i) /\ ptask[i].outcome.kind = "completed") =>
            (ptask[i].ret <=>
                (/\ ptask[i].outcome.code = pbase.code
                 /\ (pself.exit_code_only \/ SameOutput(ptask[i].outcome))))

\* reached: the same exit code with another output, equivalent under
\* exit_code_only, beside a run with another exit code, not equivalent
C1_Witness ==
    /\ pself.exit_code_only
    /\ \E i, j \in Tasks :
        /\ Done(i) /\ ptask[i].outcome.kind = "completed"
        /\ ptask[i].outcome.code = pbase.code /\ ~SameOutput(ptask[i].outcome)
        /\ ptask[i].ret
        /\ Done(j) /\ ptask[j].outcome.kind = "completed"
        /\ ptask[j].outcome.code # pbase.code /\ SameOutput(ptask[j].outcome)
        /\ ~ptask[j].ret

\* C2: whatever the order of completion, __test_commands__ returns exactly
\* the pairs of its input list whose own call returned true: every returned
\* pair is an input pair with a true call, and none such is missing.
C2_ResultIsTrueCalls ==
    ppool = "returned" =>
        /\ presult.kind = "set"
        /\ \A pair \in presult.val : \E i \in Tasks : pcommands[i] = pair /\ ptask[i].ret
        /\ \A i \in Tasks : ptask[i].ret => pcommands[i] \in presult.val

\* reached: two different candidates that completed in the reverse order,
\* the first one true and the second one false
C2_Witness ==
    /\ ppool = "returned"
    /\ Len(pcommands) >= 2
    /\ pcommands[1] # pcommands[2]
    /\ pdone[1] = 2
    /\ ptask[1].ret /\ ~ptask[2].ret
    /\ presult.val = {pcommands[1]}

Failing(o) == o.kind \in {"TimeoutExpired", "FileNotFoundError"}

\* C3: a timeout or another exception in one call makes that candidate false
\* and nothing else: the run is made once, nothing propagates (no call and no
\* pool call ends by raising), every other candidate's value is the verdict
\* of its own run, and the pool call can still return once all calls ended.
C3_FailureIsLocal ==
    /\ ppool # "raised"
    /\ \A i \in Tasks : Done(i) =>
        /\ ptask[i].raised = "none"
        /\ Cardinality({k \in 1..Len(ptask[i].events) : ptask[i].events[k] = "variant"}) = 1
        /\ Failing(ptask[i].outcome) => ~ptask[i].ret
        /\ ptask[i].ret <=> OwnVerdict(ptask[i].outcome)
    /\ (ppool = "open" /\ \A i \in Tasks : Done(i)) => ENABLED PoolReturn
    /\ ppool = "returned" =>
        /\ \A i \in Tasks : Done(i)
        /\ presult.kind = "set"
        /\ \A i \in Tasks : Failing(ptask[i].outcome) /\ pcommands[i] \in presult.val =>
                \E j \in Tasks : pcommands[j] = pcommands[i] /\ ptask[j].ret

\* reached: a returned pool call with a timed-out candidate, a candidate that
\* raised another exception, and the result the set of the true ones
C3_Witness ==
    /\ ppool = "returned"
    /\ \E i, j \in Tasks :
        /\ ptask[i].outcome.kind = "TimeoutExpired"
        /\ ptask[j].outcome.kind = "FileNotFoundError"
    /\ presult = SetOf({})

\* C4: with a post_command configured, every call runs it exactly once, after
\* the variant's run has ended, whether that matched, mismatched, timed out
\* or raised; a failing post_command changes neither the value returned nor
\* raises to the caller.  Without a post_command none is run.
C4_PostCommandOnce ==
    \A i \in Tasks : Done(i) =>
        /\ ptask[i].events = IF pself.post_command THEN <<"variant", "post">> ELSE <<"variant">>
        /\ ptask[i].raised = "none"
        /\ ptask[i].ret <=> OwnVerdict(ptask[i].outcome)

\* reached: a failing post_command after a matching run (still true) and
\* after a timed-out run
C4_Witness ==
    /\ pself.post_command
    /\ \E i, j \in Tasks :
        /\ Done(i) /\ ptask[i].ret /\ ptask[i].post.kind = "FileNotFoundError"
        /\ Done(j) /\ ptask[j].outcome.kind = "TimeoutExpired"
        /\ ptask[j].post.kind = "FileNotFoundError"
        /\ ptask[j].events = <<"variant", "post">>

(***************************************************************************)
(* The front end's defaults for a test case (prepare_command without       *)
(* --char_offset).                                                         *)
(***************************************************************************)
\* preferred_chars = 'hjrwyxsl'
preferred_chars == {104, 106, 114, 119, 121, 120, 115, 108}

\* s.lower()
RECURSIVE LowerStr(_)
LowerStr(s) == IF Len(s) = 0 THEN <<>> ELSE Lower(s[1]) \o LowerStr(Tail(s))

\* get_command_part_offset
get_command_part_offset(command_part) ==
    LET low == LowerStr(command_part)
        hits == {i \in 1..(Len(low) - 1) : At(low, i) \in preferred_chars}
    IN  IF hits # {} THEN (CHOOSE i \in hits : \A j \in hits : i <= j) + 1
        ELSE IF Len(command_part) > 1 THEN 2 ELSE 1

\* s.split(':')[0]
RECURSIVE SplitColonFirst(_)
SplitColonFirst(s) ==
    IF Len(s) = 0 \/ s[1] = COLON THEN <<>> ELSE <<s[1]>> \o SplitColonFirst(Tail(s))

\* prepare_command, char_offset is None: (command_list, char_offset, arg_index)
prepare_command(command_list) ==
    LET arg_index == select_arg_index(command_list, NoIndex).val
        command_part_offset ==
            get_command_part_offset(SplitColonFirst(At(command_list, arg_index)))
    IN  <<command_list,
          Len(Flatten(Slice(command_list, 0, arg_index))) + command_part_offset,
          arg_index>>

\* TestCase(...)
TestCase(command_list, scan_range, post_command) ==
    LET prepared == prepare_command(command_list)
    IN  [command |-> prepared[1], char_offset |-> prepared[2], arg_index |-> prepared[3],
         scan_range |-> scan_range, post_command |-> post_command]

(***************************************************************************)
(* The baseline run and the object's construction.                         *)
(***************************************************************************)
\* __get_expected_result__: (exit_code, stdout), or the exception: the one
\* except clause re-raises FileNotFoundError, no clause handles another
get_expected_result(o) ==
    IF o.kind = "completed" THEN Ok(<<o.code, Format(o.stdout, o.stderr)>>)
    ELSE Raise(o.kind)

(***************************************************************************)
(* run_tests and the report writer.                                        *)
(***************************************************************************)
\* test_case.command[0].strip('"')
RECURSIVE StripQuotes(_)
StripQuotes(s) ==
    IF Len(s) > 0 /\ s[1] = QUOTE THEN StripQuotes(Tail(s))
    ELSE IF Len(s) > 0 /\ s[Len(s)] = QUOTE THEN StripQuotes(SubSeq(s, 1, Len(s) - 1))
    ELSE s

\* os.path.split(path)[1]: what follows the last separator
Basename(path) ==
    LET seps == {i \in 1..Len(path) : path[i] = SLASH}
    IN  IF seps = {} THEN path
        ELSE SubSeq(path, (CHOOSE i \in seps : \A j \in seps : i >= j) + 1, Len(path))

\* line 23 of run.py
display_name(test_case) == Basename(StripQuotes(test_case.command[1]))

\* re.sub(r'[\\/*?:"<>|]', "", name)
RECURSIVE RemoveReserved(_)
RemoveReserved(name) ==
    IF Len(name) = 0 THEN <<>>
    ELSE IF name[1] \in {92, 47, 42, 63, 58, 34, 60, 62, 124} THEN RemoveReserved(Tail(name))
    ELSE <<name[1]>> \o RemoveReserved(Tail(name))

\* '{}.log'.format(...)
file_name(name) == RemoveReserved(name) \o <<46, 108, 111, 103>>

\* a variant of run_tests_except that lets every exception through
run_tests_except_nothing(e) == FALSE

\* line 43 of run.py: except Exception
run_tests_except(e) == e \in ExceptionClasses

\* the keys of test_outcomes, in the order run_tests evaluates them
RunKeys == <<"option_char", "char_insert", "char_substitution", "quotes", "shorthand_command">>

\* test_outcomes.get(key)
DictGet(d, key) == IF key \in DOMAIN d THEN d[key] ELSE None

\* bool(value) of a test outcome
Truthy(value) ==
    IF value.kind = "set" THEN value.val # {}
    ELSE IF value.kind = "str" THEN Len(value.val) > 0
    ELSE FALSE

\* a section of the report: left out; or its header with the line for "not
\* applicable", for "none found", or with what was found
Section(text, found) == [text |-> text, found |-> found]
Tested(outcomes) ==
    IF Truthy(outcomes) THEN Section("found", outcomes.val) ELSE Section("none_found", {})

\* write_report: the five sections, by the key each reads
write_report(test_outcomes) ==
    [option_char |->
        IF "option_char" \in DOMAIN test_outcomes
        THEN IF test_outcomes["option_char"].kind # "None"
             THEN Tested(test_outcomes["option_char"])
             ELSE Section("not_applicable", {})
        ELSE Section("omitted", {}),
     char_insert |->
        IF DictGet(test_outcomes, "char_insert").kind # "None"
        THEN Tested(DictGet(test_outcomes, "char_insert"))
        ELSE Section("omitted", {}),
     char_substitute |->
        IF DictGet(test_outcomes, "char_substitute").kind # "None"
        THEN Tested(DictGet(test_outcomes, "char_substitute"))
        ELSE Section("omitted", {}),
     quotes |->
        IF DictGet(test_outcomes, "quotes").kind # "None"
        THEN Tested(DictGet(test_outcomes, "quotes"))
        ELSE Section("omitted", {}),
     shorthands |->
        IF DictGet(test_outcomes, "shorthands").kind # "None"
        THEN Tested(DictGet(test_outcomes, "shorthands"))
        ELSE Section("not_applicable", {})]

\* parse_outcome
parse_outcome(value) ==
    IF value.kind = "None" THEN <<"N/A", 0>>
    ELSE IF Truthy(value)
         THEN IF value.kind = "str" THEN <<"Yes", 0>> ELSE <<"Yes", Cardinality(value.val)>>
    ELSE <<"No", 0>>

\* print_results: a row per display name, a cell per value of its dict
print_results(results) ==
    [name \in DOMAIN results |->
        [k \in 1..Len(RunKeys) |-> parse_outcome(results[name][RunKeys[k]])]]

(***************************************************************************)
(* A batch of up to MaxCases test cases: net start (with a post command),  *)
(* ls -l, /b/ls -la and cmd x, each scanning R, l and CYRILLIC SMALL A.    *)
(***************************************************************************)
BatchScan == <<82, 108, 1072>>
BatchCases ==
    {TestCase(<<Exe, <<115, 116, 97, 114, 116>>>>, BatchScan, TRUE),
     TestCase(<<(<<108, 115>>), <<HYPHEN, 108>>>>, BatchScan, FALSE),
     TestCase(<<(<<SLASH, 98, SLASH, 108, 115>>), <<HYPHEN, 108, 97>>>>, BatchScan, FALSE),
     TestCase(<<(<<99, 109, 100>>), <<120>>>>, BatchScan, FALSE)}

BaselineOutcomes ==
    {Completed(c, <<120>>, <<>>) : c \in ExitCodes}
        \cup {Raised("FileNotFoundError"), Raised("PermissionError")}

NoRun == [baseline |-> "none", status |-> "pending", error |-> "none",
          variants |-> 0, posts |-> 0]

InitBatch ==
    /\ GenIdle
    /\ PoolIdle
    /\ SchedIdle
    /\ bcases \in SeqsUpTo(BatchCases, MaxCases) \ {<<>>}
    /\ bidx = 1
    /\ bpc = "construct"
    /\ btest = <<>>
    /\ boutcomes = <<>>
    /\ bresult = <<>>
    /\ breports = <<>>
    /\ bruns = [i \in 1..Len(bcases) |-> NoRun]
    /\ brecorded = {}
    /\ bprinted = <<>>

\* the for loop moves on to the next test case, or ends
NextCase ==
    /\ bidx' = bidx + 1
    /\ bpc' = IF bidx + 1 > Len(bcases) THEN "print" ELSE "construct"
    /\ btest' = <<>>
    /\ boutcomes' = <<>>

\* an exception e leaves the try body of this iteration
Abort(e, runs) ==
    IF run_tests_except(e)
    THEN /\ bruns' = [runs EXCEPT ![bidx].status = "aborted", ![bidx].error = e]
         /\ NextCase
         /\ UNCHANGED <<bcases, bresult, breports, brecorded, bprinted>>
    ELSE /\ bruns' = [runs EXCEPT ![bidx].status = "aborted", ![bidx].error = e]
         /\ bpc' = "raised"
         /\ UNCHANGED <<bcases, bidx, btest, boutcomes, bresult, breports, brecorded, bprinted>>

\* line 28: TestProcessObfuscation(test_case, threads, log), whose baseline
\* run does o; fam is how the program under test will answer the variants
Construct ==
    /\ bpc = "construct"
    /\ \E o \in BaselineOutcomes, fam \in OutcomeFamilies :
        LET expected == get_expected_result(o)
            runs == [bruns EXCEPT ![bidx].baseline = o.kind]
        IN  IF expected.kind = "raise"
            THEN Abort(expected.exc, runs)
            ELSE /\ btest' = [command |-> bcases[bidx].command,
                              post_command |-> bcases[bidx].post_command,
                              expected_code |-> expected.val[1],
                              expected_output |-> expected.val[2],
                              scan_range |-> bcases[bidx].scan_range,
                              fam |-> fam]
                 /\ bruns' = runs
                 /\ bpc' = RunKeys[1]
                 /\ UNCHANGED <<bcases, bidx, boutcomes, bresult, breports, brecorded, bprinted>>
    /\ UNCHANGED <<gvars, pvars, svars>>

\* the harness calls a check made
HarnessCalls(call) ==
    (IF call.submitted.kind = "ok" THEN Len(call.submitted.val) ELSE 0) + Len(call.direct)

\* an entry of the dict display: the check's call ends, its value is stored
\* under key, or its exception leaves the try body
Entry(key, call, nextpc) ==
    LET n == HarnessCalls(call)
        runs == [bruns EXCEPT ![bidx].variants = @ + n,
                              ![bidx].posts = @ + (IF btest.post_command THEN n ELSE 0)]
    IN  IF call.ret.kind = "raise"
        THEN Abort(call.ret.exc, runs)
        ELSE /\ boutcomes' = (key :> call.ret) @@ boutcomes
             /\ bruns' = runs
             /\ bpc' = nextpc
             /\ UNCHANGED <<bcases, bidx, btest, bresult, breports, brecorded, bprinted>>

\* line 31
EntryOptionChar ==
    /\ bpc = "option_char"
    /\ Entry("option_char",
             check_option_char(btest.command, bcases[bidx].arg_index, btest.fam),
             "char_insert")
    /\ UNCHANGED <<gvars, pvars, svars>>

\* line 32
EntryCharInsert ==
    /\ bpc = "char_insert"
    /\ Entry("char_insert",
             check_special_chars(btest.command, bcases[bidx].char_offset, "INSERT",
                                 btest.scan_range, btest.fam),
             "char_substitution")
    /\ UNCHANGED <<gvars, pvars, svars>>

\* line 33
EntryCharSubstitution ==
    /\ bpc = "char_substitution"
    /\ Entry("char_substitution",
             check_special_chars(btest.command, bcases[bidx].char_offset, "REPLACE",
                                 btest.scan_range, btest.fam),
             "quotes")
    /\ UNCHANGED <<gvars, pvars, svars>>

\* line 34
EntryQuotes ==
    /\ bpc = "quotes"
    /\ Entry("quotes",
             check_quote_injection(btest.command, {bcases[bidx].arg_index}, btest.fam # "none"),
             "shorthand_command")
    /\ UNCHANGED <<gvars, pvars, svars>>

\* line 35
EntryShorthandCommand ==
    /\ bpc = "shorthand_command"
    /\ Entry("shorthand_command",
             check_shortened_option(btest.command, {bcases[bidx].arg_index}, btest.fam),
             "report")
    /\ UNCHANGED <<gvars, pvars, svars>>

\* lines 39 and 42: result[display_name] = test_outcomes, write_report(...)
Report ==
    /\ bpc = "report"
    /\ LET name == display_name(bcases[bidx])
       IN  /\ bresult' = (name :> boutcomes) @@ bresult
           /\ breports' = (file_name(name) :> write_report(boutcomes)) @@ breports
    /\ brecorded' = brecorded \cup {bidx}
    /\ bruns' = [bruns EXCEPT ![bidx].status = "done"]
    /\ NextCase
    /\ UNCHANGED <<gvars, pvars, svars, bcases, bprinted>>

\* line 47: print_results(result)
PrintResults ==
    /\ bpc = "print"
    /\ bprinted' = print_results(bresult)
    /\ bpc' = "end"
    /\ UNCHANGED <<gvars, pvars, svars, bcases, bidx, btest, boutcomes, bresult, breports, bruns, brecorded>>

NextBatch ==
    \/ Construct
    \/ EntryOptionChar
    \/ EntryCharInsert
    \/ EntryCharSubstitution
    \/ EntryQuotes
    \/ EntryShorthandCommand
    \/ Report
    \/ PrintResults

SpecBatch == InitBatch /\ [][NextBatch]_vars

(***************************************************************************)
(* Properties of the batch driver and the report writer.                   *)
(***************************************************************************)
Categories == {"option_char", "char_insert", "char_substitute", "quotes", "shorthands"}

\* the key under which run_tests stores what each category's check returned
CheckKey == [option_char |-> "option_char", char_insert |-> "char_insert",
             char_substitute |-> "char_substitution", quotes |-> "quotes",
             shorthands |-> "shorthand_command"]

\* the three states of a category's result
StateOf(value) ==
    IF value.kind = "None" THEN "NotApplicable"
    ELSE IF Truthy(value) THEN "TestedNonEmpty"
    ELSE "TestedEmpty"

\* the state a section of the report tells its reader (a section left out
\* counts as telling "not applicable")
RenderedState(section) ==
    IF section.text = "found" THEN "TestedNonEmpty"
    ELSE IF section.text = "none_found" THEN "TestedEmpty"
    ELSE "NotApplicable"

\* C5: for every test case reported, the writer renders for each of the five
\* categories the state its check returned (not applicable, tested and empty,
\* tested and non-empty), and the mapping handed over has exactly the keys
\* option_char, char_insert, char_substitute, quotes and shorthands.
C5_ReportRendersEveryState ==
    \A name \in DOMAIN bresult :
        /\ \A c \in Categories :
            RenderedState(breports[file_name(name)][c]) = StateOf(bresult[name][CheckKey[c]])
        /\ DOMAIN bresult[name] = Categories

Cases == 1..Len(bcases)

\* C10: a test case whose baseline executable is missing is aborted by the
\* exception from the baseline run before any variant or post command of it
\* is run, no result is recorded for it, no exception leaves run_tests, and
\* the batch goes on: the loop moves to the next test case, and the batch
\* ends only past the last one, with every test case processed.
C10_MissingBaselineSkipsCase ==
    /\ \A i \in Cases : bruns[i].baseline = "FileNotFoundError" =>
        /\ bruns[i].status = "aborted"
        /\ bruns[i].error = "FileNotFoundError"
        /\ bruns[i].variants = 0
        /\ bruns[i].posts = 0
        /\ i \notin brecorded
        /\ bidx > i
    /\ bpc # "raised"
    /\ bpc \in {"construct"} \cup {RunKeys[k] : k \in 1..Len(RunKeys)} \cup {"report"} => bidx \in Cases
    /\ bpc \in {"print", "end"} => bidx = Len(bcases) + 1
    /\ bpc = "end" => \A i \in Cases : bruns[i].status \in {"aborted", "done"}

\* reached: a finished batch whose first test case had no executable and
\* whose second one ran its variants and post commands and was recorded
C10_Witness ==
    /\ bpc = "end"
    /\ Len(bcases) >= 2
    /\ bruns[1].baseline = "FileNotFoundError"
    /\ bruns[1].status = "aborted"
    /\ bruns[2].status = "done"
    /\ bruns[2].variants > 0
    /\ bruns[2].posts > 0
    /\ brecorded = {2}
    /\ display_name(bcases[2]) \in DOMAIN bresult

\* C11: in the baseline run, file-not-found is the only execution error that
\* propagates: a baseline that exits non-zero or that fails with any other
\* error is no reason to abandon the test case; it has a baseline result, and
\* its variant categories run.
C11_OnlyFileNotFoundPropagates ==
    \A i \in Cases :
        /\ bruns[i].baseline = "FileNotFoundError" =>
              bruns[i].status = "aborted" /\ bruns[i].error = "FileNotFoundError"
        /\ bruns[i].baseline \notin {"none", "FileNotFoundError"} =>
              /\ bruns[i].error # bruns[i].baseline
              /\ i < bidx => bruns[i].variants > 0

(***************************************************************************)
(* run_tests step by step: the baseline run, the five checks in the order  *)
(* of the dict display, the pool call of a check and the threads'          *)
(* __run_command__ calls, each subprocess from its start to its end, and   *)
(* the progress bar self.tqdm.                                             *)
(***************************************************************************)
\* line 101: tqdm.tqdm(total=len(commands), ...): a bar that counts from 0
tqdm(total) == [kind |-> "bar", total |-> total, n |-> 0, disable |-> FALSE]

\* line 134: "if self.tqdm": None is false, a bar is true when its total is
\* positive
tqdm_bool(bar) == bar.kind = "bar" /\ bar.total > 0

\* lines 134-135: whether the call leaves the counter alone: self.tqdm is
\* false, or update() returns at once because the bar is closed (disabled)
tqdm_update_skips(bar) == ~tqdm_bool(bar) \/ bar.disable

\* the end of the with statement of line 101: close() disables the bar
tqdm_close(bar) == [bar EXCEPT !.disable = TRUE]

\* a variant of map_returns that stops waiting once every command is handed
\* out
map_returns_all_taken(pool) == pool.next > pool.n

\* line 103: thread_pool.map returns when every call has returned
map_returns(pool) == pool.done = pool.n

\* the candidates a check of run_tests (lines 31-35) builds for test case tc:
\* None, an exception, or Ok of the list (of the one command, for quotes)
sched_candidates(tc, key) ==
    CASE key = "option_char" -> option_char_new_commands(tc.command, tc.arg_index)
      [] key = "char_insert" ->
            special_chars_new_commands(tc.command, tc.char_offset, "INSERT", tc.scan_range)
      [] key = "char_substitution" ->
            special_chars_new_commands(tc.command, tc.char_offset, "REPLACE", tc.scan_range)
      [] key = "quotes" -> quote_injection_candidate(tc.command, {tc.arg_index})
      [] key = "shorthand_command" -> shortened_new_commands(tc.command, {tc.arg_index})

\* the key of the dict display after key, "report" after the last
KeyAfter(key) ==
    LET k == CHOOSE j \in 1..Len(RunKeys) : RunKeys[j] = key
    IN  IF k = Len(RunKeys) THEN "report" ELSE RunKeys[k + 1]

\* what a thread is doing: kind is "baseline", "variant", "post" or "update";
\* id is the candidate's place in the list (0 for the baseline and for the
\* call a check makes itself)
Flight(kind, case, cat, id) ==
    [kind |-> kind, case |-> case, cat |-> cat, id |-> id, read |-> -1]

\* the test cases of a step-by-step run: "net start" with a post command,
\* "ls abc" without one, and "cmd x", whose quotes check raises.  None has an
\* option: the option char check returns None, and the pools are those of
\* the character checks (one thread per code point of the scan range) and
\* of the shortening.
SchedCases ==
    {TestCase(<<Exe, <<115, 116, 97, 114, 116>>>>, BatchScan, TRUE),
     TestCase(<<(<<108, 115>>), <<97, 98, 99>>>>, BatchScan, FALSE),
     TestCase(<<(<<99, 109, 100>>), <<120>>>>, BatchScan, FALSE)}

InitSched ==
    /\ GenIdle
    /\ PoolIdle
    /\ BatchIdle
    /\ scases \in SeqsUpTo(SchedCases, MaxCases) \ {<<>>}
    /\ sidx = 1
    /\ spc = "construct"
    /\ sphase = "none"
    /\ spool = NoPool
    /\ sflight = {}
    /\ sbar = None
    /\ slast = <<0, "none">>

\* the for loop moves on to the next test case, or ends
SchedNextCase ==
    /\ sidx' = sidx + 1
    /\ spc' = IF sidx + 1 > Len(scases) THEN "print" ELSE "construct"
    /\ sphase' = "none"
    /\ spool' = NoPool
    /\ UNCHANGED scases

\* an exception e leaves the try body of this iteration
SchedAbort(e) ==
    IF run_tests_except(e)
    THEN SchedNextCase
    ELSE /\ spc' = "raised"
         /\ sphase' = "none"
         /\ spool' = NoPool
         /\ UNCHANGED <<scases, sidx>>

\* a check has returned: the next entry of the dict display, or its end
SchedAdvance ==
    /\ spc' = KeyAfter(spc)
    /\ sphase' = IF KeyAfter(spc) = "report" THEN "none" ELSE "call"
    /\ spool' = NoPool
    /\ UNCHANGED <<scases, sidx>>

\* line 28, lines 80-84: the constructor starts the baseline run
SchedBaselineStart ==
    /\ spc = "construct"
    /\ spc' = "baseline"
    /\ sflight' = sflight \cup {Flight("baseline", sidx, "baseline", 0)}
    /\ slast' = <<sidx, "baseline">>
    /\ UNCHANGED <<gvars, pvars, bvars, scases, sidx, sphase, spool, sbar>>

\* lines 84-93 and 32-36: the baseline's subprocess.run ends; the object is
\* built with self.tqdm None, or the exception leaves the constructor
SchedBaselineEnd ==
    /\ spc = "baseline"
    /\ \E o \in BaselineOutcomes :
        LET expected == get_expected_result(o)
        IN  IF expected.kind = "raise"
            THEN SchedAbort(expected.exc)
            ELSE /\ spc' = RunKeys[1]
                 /\ sphase' = "call"
                 /\ UNCHANGED <<scases, sidx, spool>>
    /\ sflight' = sflight \ {Flight("baseline", sidx, "baseline", 0)}
    /\ sbar' = None
    /\ UNCHANGED <<gvars, pvars, bvars, slast>>

\* lines 31-35: the next check is called and builds its candidates: it
\* raises, returns None, opens the pool and the bar (__test_commands__,
\* lines 99-101), or, for quotes, starts the one variant itself (line 168)
SchedCall ==
    /\ spc \in {RunKeys[k] : k \in 1..Len(RunKeys)}
    /\ sphase = "call"
    /\ LET nc == sched_candidates(scases[sidx], spc)
       IN  IF nc.kind = "raise"
           THEN SchedAbort(nc.exc) /\ UNCHANGED <<sflight, sbar, slast>>
           ELSE IF nc.kind = "None" \/ (spc = "shorthand_command" /\ Len(nc.val) = 0)
           THEN SchedAdvance /\ UNCHANGED <<sflight, sbar, slast>>
           ELSE IF spc = "quotes"
           THEN /\ sphase' = "direct"
                /\ sflight' = sflight \cup {Flight("variant", sidx, spc, 0)}
                /\ slast' = <<sidx, spc>>
                /\ UNCHANGED <<scases, sidx, spc, spool, sbar>>
           ELSE /\ sphase' = "pool"
                /\ spool' = [n |-> Len(nc.val), next |-> 1, done |-> 0]
                /\ sbar' = tqdm(Len(nc.val))
                /\ UNCHANGED <<scases, sidx, spc, sflight, slast>>
    /\ UNCHANGED <<gvars, pvars, bvars>>

\* the threads of the open pool that are in a __run_command__ call
Busy == {f \in sflight : f.case = sidx /\ f.cat = spc /\ f.id # 0}

\* an idle thread of the pool takes the next command of the list and starts
\* its subprocess (line 114); the pool has self.threads threads
SchedTake ==
    /\ sphase = "pool"
    /\ spool.next <= spool.n
    /\ Cardinality(Busy) < Threads
    /\ sflight' = sflight \cup {Flight("variant", sidx, spc, spool.next)}
    /\ spool' = [spool EXCEPT !.next = @ + 1]
    /\ slast' = <<sidx, spc>>
    /\ UNCHANGED <<gvars, pvars, bvars, scases, sidx, spc, sphase, sbar>>

\* the __run_command__ call of f returns, bar being self.tqdm as it leaves
\* it: to the pool, or to the check that made the call itself, which returns
SchedEnd(f, bar) ==
    /\ sflight' = sflight \ {f}
    /\ sbar' = bar
    /\ IF f.id = 0
       THEN SchedAdvance
       ELSE /\ spool' = IF f \in Busy THEN [spool EXCEPT !.done = @ + 1] ELSE spool
            /\ UNCHANGED <<scases, sidx, spc, sphase>>
    /\ UNCHANGED slast

\* lines 134-135, first half: the thread tests self.tqdm and, in update(),
\* reads self.n for "self.n += 1"; update() takes no lock and the threads of
\* the pool share the bar, so other threads may run before the value is
\* written back.  When the counter is left alone the call returns here.
AfterSubprocess(f) ==
    IF tqdm_update_skips(sbar)
    THEN SchedEnd(f, sbar)
    ELSE /\ sflight' = (sflight \ {f}) \cup {[f EXCEPT !.kind = "update", !.read = sbar.n]}
         /\ UNCHANGED <<scases, sidx, spc, sphase, spool, sbar, slast>>

\* lines 114-129: the variant's subprocess ends (it returned, timed out and
\* was killed, or could not be started); the post command is started when
\* one is configured
SchedVariantEnd(f) ==
    /\ f.kind = "variant"
    /\ IF scases[f.case].post_command
       THEN /\ sflight' = (sflight \ {f}) \cup {[f EXCEPT !.kind = "post"]}
            /\ UNCHANGED <<scases, sidx, spc, sphase, spool, sbar, slast>>
       ELSE AfterSubprocess(f)
    /\ UNCHANGED <<gvars, pvars, bvars>>

\* lines 129-133: the post command's subprocess ends
SchedPostEnd(f) ==
    /\ f.kind = "post"
    /\ AfterSubprocess(f)
    /\ UNCHANGED <<gvars, pvars, bvars>>

\* line 135, second half: the thread stores the value it read, plus one, in
\* self.n of the bar, and the call returns
SchedUpdateWrite(f) ==
    /\ f.kind = "update"
    /\ SchedEnd(f, IF sbar.kind = "bar" THEN [sbar EXCEPT !.n = f.read + 1] ELSE sbar)
    /\ UNCHANGED <<gvars, pvars, bvars>>

\* lines 103-105: map returns, the with statements close the bar and end
\* the pool, and the check returns
SchedPoolReturn ==
    /\ sphase = "pool"
    /\ map_returns(spool)
    /\ sbar' = tqdm_close(sbar)
    /\ SchedAdvance
    /\ UNCHANGED <<gvars, pvars, bvars, sflight, slast>>

\* lines 39 and 42 of run.py: the outcomes are stored and the report written
SchedRecord ==
    /\ spc = "report"
    /\ SchedNextCase
    /\ UNCHANGED <<gvars, pvars, bvars, sflight, sbar, slast>>

\* line 47 of run.py: print_results(result)
SchedPrint ==
    /\ spc = "print"
    /\ spc' = "end"
    /\ UNCHANGED <<gvars, pvars, bvars, scases, sidx, sphase, spool, sflight, sbar, slast>>

NextSched ==
    \/ SchedBaselineStart
    \/ SchedBaselineEnd
    \/ SchedCall
    \/ SchedTake
    \/ \E f \in sflight : SchedVariantEnd(f)
    \/ \E f \in sflight : SchedPostEnd(f)
    \/ \E f \in sflight : SchedUpdateWrite(f)
    \/ SchedPoolReturn
    \/ SchedRecord
    \/ SchedPrint

SpecSched == InitSched /\ [][NextSched]_vars

(***************************************************************************)
(* Properties of the run, step by step.                                    *)
(***************************************************************************)
Variants == {f \in sflight : f.kind = "variant"}

\* C12: at every moment of a batch run all variant subprocesses in flight
\* belong to one category of one test case, the one started last, and are at
\* most as many as the pool has threads; while a baseline runs nothing else
\* of the batch is in flight, and no variant runs before the baseline of its
\* test case has ended.
C12_OneCategoryInFlight ==
    /\ Cardinality(Variants) <= Threads
    /\ \A f \in Variants :
        /\ <<f.case, f.cat>> = slast
        /\ f.case = sidx /\ f.cat = spc
        /\ \A g \in sflight : g.kind # "baseline"
    /\ \A f \in sflight :
        f.kind = "baseline" => sflight = {f} /\ f.case = sidx /\ spc = "baseline"

\* reached: in the second test case, after the quotes check's own call, the
\* pool of the last check with as many variants in flight as it has threads
C12_Witness ==
    /\ sidx = 2
    /\ spc = "shorthand_command"
    /\ Cardinality(Variants) = Threads
    /\ spool.done > 0

\* C15: while a pool call runs, the counter of its bar is the number of
\* candidates that completed, whatever the interleaving of the threads'
\* updates, so that it is n when the n candidates of the category are done
\* and the bar is closed; the call a check makes itself afterwards (quote
\* injection) advances no bar.
C15_ProgressCountsCandidates ==
    /\ sphase = "pool" => sbar.n = spool.done
    /\ (sbar.kind = "bar" /\ sbar.disable) => sbar.n = sbar.total

====
